---- MODULE Spec2Model ----
(***************************************************************************)
(* State-machine model of the two FastAPI services of localai-rag-k3s:     *)
(*   - rag-anything/docker/server.py : the RAG facade and its document     *)
(*     status tracker (specifications Spec and SpecLive) and its adapter   *)
(*     embedding_func (specification SpecEmbeddingFunc)                    *)
(*   - colqwen2/docker/server.py     : the visual embedding facade         *)
(*     (specification SpecEmbed)                                           *)
(*                                                                         *)
(* Both services run on one asyncio event loop: the code between two       *)
(* awaits runs atomically, so an action is a handler, or the part of the   *)
(* background task between two suspension points.                          *)
(*                                                                         *)
(* Conventions                                                             *)
(*   - Python None is None; an Optional[str] is <<>> (None) or <<s>>.      *)
(*   - progress is kept in tenths (0.0 -> 0, 0.1 -> 1, 1.0 -> 10).         *)
(*   - created_at and processing_time are wall-clock readings; created_at  *)
(*     is left out of the record, processing_time is the value "elapsed".  *)
(***************************************************************************)
EXTENDS Integers, Sequences, FiniteSets, TLC

\* ------------------------------------------------------------------ bounds
\* number of uuid4 identifiers the model hands out
MaxDocs == 2
\* longest list of images in an embed_batch request
MaxBatch == 3
\* longest list of texts handed to embedding_func
MaxTexts == 66

\* --------------------------------------------------------------- constants
\* progress values, in tenths
ProgressPending == 0
ProgressStarted == 1
ProgressDone == 10
\* batch_size of embedding_func
BatchSize == 32

None == "None"

VARIABLES
    \* ---- rag-anything/docker/server.py
    rag_phase,          \* "startup" before lifespan ran initialize_rag, then "serving"
    init_outcome,       \* how initialize_rag ended: "none" | "ok" | "import_error" | "exception"
    rag_instance,       \* global rag_instance: None or the RAGAnything object
    processing_status,  \* global processing_status: doc id -> DocumentStatus
    upload_dirs,        \* ids d for which documents_dir/d exists on disk
    output_dirs,        \* ids d for which working_dir/d exists on disk
    tasks,              \* background tasks, in scheduling order
    next_id,            \* the next identifier uuid4 produces
    response,           \* the response of the last request served
    lib_calls,          \* calls the last request made on rag_instance
    deleted,            \* history: ids a delete has removed
    status_log,         \* history: per tracked id, the values assigned to .status
    \* ---- colqwen2/docker/server.py
    emb_phase,          \* "startup" | "serving"
    load_result,        \* what load_model returned: "none" | TRUE | FALSE
    model,              \* global model
    processor,          \* global processor
    device,             \* global device
    emb_response,       \* the response of the last request served
    emb_trace,          \* what the last request decoded and handed to the model
    \* ---- rag-anything/docker/server.py, one call of embedding_func
    ef_pc,              \* "idle" | "loop" | "returned" | "raised"
    ef_texts,           \* the argument texts
    ef_i,               \* the loop variable i
    ef_embeddings,      \* the local list embeddings
    ef_requests,        \* history: the input of every embeddings.create call, in order
    ef_wellformed,      \* history: every response so far held one embedding per text
    ef_result           \* what the call gave its caller

ragVars == <<rag_phase, init_outcome, rag_instance, processing_status, upload_dirs,
             output_dirs, tasks, next_id, response, lib_calls, deleted, status_log>>
embVars == <<emb_phase, load_result, model, processor, device, emb_response,
             emb_trace>>
efVars == <<ef_pc, ef_texts, ef_i, ef_embeddings, ef_requests, ef_wellformed,
            ef_result>>
vars == <<ragVars, embVars, efVars>>

\* ------------------------------------------------------------- input sets
DocIds == 1..MaxDocs
Filenames == {"a.pdf"}
\* str(e) of the exceptions the ingestion library raises; str(TimeoutError()) is ""
ExcTexts == {"", "parse failed"}
\* query texts, each the tuple of its pieces (analyze_product builds one of seven)
Queries == {<<"q1">>, <<"q2">>}
Modes == {"hybrid", "naive"}

NoResponse == [op |-> "none", code |-> 0]

\* ================================================================ RAG service

\* globals after module import (lines 73-75) and before lifespan
InitRag ==
    /\ rag_phase = "startup"
    /\ init_outcome = "none"
    /\ rag_instance = None
    /\ processing_status = <<>>
    /\ upload_dirs = {}
    /\ output_dirs = {}
    /\ tasks = <<>>
    /\ next_id = 1
    /\ response = NoResponse
    /\ lib_calls = <<>>
    /\ deleted = {}
    /\ status_log = <<>>

Tracked == DOMAIN processing_status

\* value of rag_instance after initialize_rag ended with `outcome`
InitializeRagResult(outcome) ==
    IF outcome = "ok" THEN "RAGAnything" ELSE None

\* lifespan: await initialize_rag(), then the app serves
Lifespan(outcome) ==
    /\ rag_phase = "startup"
    /\ rag_instance = None
    /\ rag_phase' = "serving"
    /\ init_outcome' = outcome
    /\ rag_instance' = InitializeRagResult(outcome)
    /\ UNCHANGED <<processing_status, upload_dirs, output_dirs, tasks, next_id,
                   response, lib_calls, deleted, status_log>>
    /\ UNCHANGED <<embVars, efVars>>

\* a guard that lets every request through
RagNotInitializedNever == FALSE

\* the guard `if rag_instance is None: raise HTTPException(503)`
RagNotInitialized == rag_instance = None

Unavailable(op, req) ==
    [op |-> op, code |-> 503, request |-> req, detail |-> "RAG not initialized"]

\* an identifier generator that hands out the previous identifier again
UuidReused == IF next_id > 1 THEN next_id - 1 ELSE next_id

\* str(uuid.uuid4()): an identifier no earlier call returned
Uuid4 == next_id

\* a record registered with the status the upload response announces
NewDocumentStatusProcessing(filename) ==
    [filename |-> filename, status |-> "processing",
     progress |-> ProgressPending, error |-> <<>>]

\* the DocumentStatus upload registers
NewDocumentStatus(filename) ==
    [filename |-> filename, status |-> "pending",
     progress |-> ProgressPending, error |-> <<>>]

\* POST /documents/upload; write_ok: whether open()/write() of the file succeeds
Upload(filename, write_ok) ==
    /\ rag_phase = "serving"
    /\ next_id <= MaxDocs
    /\ lib_calls' = <<>>
    /\ IF RagNotInitialized
       THEN /\ response' = Unavailable("upload", filename)
            /\ UNCHANGED <<processing_status, upload_dirs, tasks, next_id, status_log>>
       ELSE LET doc_id == Uuid4 IN
            /\ next_id' = next_id + 1
            /\ upload_dirs' = upload_dirs \cup {doc_id}
            /\ IF write_ok
               THEN /\ processing_status' =
                          [d \in Tracked \cup {doc_id} |->
                              IF d = doc_id THEN NewDocumentStatus(filename)
                              ELSE processing_status[d]]
                    /\ status_log' =
                          [d \in Tracked \cup {doc_id} |->
                              IF d = doc_id THEN <<NewDocumentStatus(filename).status>>
                              ELSE status_log[d]]
                    /\ tasks' = Append(tasks, [doc_id |-> doc_id,
                                               file_path |-> <<doc_id, filename>>,
                                               pc |-> "scheduled",
                                               result |-> "none"])
                    /\ response' = [op |-> "upload", code |-> 200, request |-> filename,
                                    document_id |-> doc_id, status |-> "processing"]
               ELSE /\ response' = [op |-> "upload", code |-> 500, request |-> filename]
                    /\ UNCHANGED <<processing_status, tasks, status_log>>
    /\ UNCHANGED <<rag_phase, init_outcome, rag_instance, output_dirs, deleted>>
    /\ UNCHANGED <<embVars, efVars>>

\* ---- process_document: the record updates it makes

MarkProcessing(rec) ==
    [rec EXCEPT !.status = "processing", !.progress = ProgressStarted]

\* a success branch that records the progress and forgets the status
MarkCompletedKeepsStatus(rec) ==
    [rec EXCEPT !.progress = ProgressDone]

MarkCompleted(rec) ==
    [rec EXCEPT !.status = "completed", !.progress = ProgressDone]

\* an except branch that puts the document back in the queue
MarkFailedRetry(rec, text) ==
    [rec EXCEPT !.status = "pending", !.error = <<text>>]

\* the except branch: status = "failed", error = str(e)
MarkFailed(rec, text) ==
    [rec EXCEPT !.status = "failed", !.error = <<text>>]

\* str(e) of the OSError of a failed output_dir.mkdir
MkdirErrorText == "[Errno 13] Permission denied"

SetTask(t, pc, result) ==
    tasks' = [tasks EXCEPT ![t].pc = pc, ![t].result = result]

\* processing_status[doc_id] raises KeyError inside the try block and again
\* inside the except block (line 317): the second one leaves the task
KeyErrorEscapes(t) ==
    /\ SetTask(t, "escaped", "KeyError")
    /\ UNCHANGED <<processing_status, status_log, output_dirs>>

\* process_document up to its await: lines 298-306
TaskStart(t, mkdir_ok) ==
    LET doc_id == tasks[t].doc_id IN
    /\ tasks[t].pc = "scheduled"
    /\ IF doc_id \notin Tracked
       THEN KeyErrorEscapes(t)
       ELSE LET started == MarkProcessing(processing_status[doc_id]) IN
            IF mkdir_ok
            THEN /\ processing_status' = [processing_status EXCEPT ![doc_id] = started]
                 /\ status_log' = [status_log EXCEPT
                                     ![doc_id] = Append(@, started.status)]
                 /\ output_dirs' = output_dirs \cup {doc_id}
                 /\ SetTask(t, "ingesting", "none")
            ELSE LET failed == MarkFailed(started, MkdirErrorText) IN
                 /\ processing_status' = [processing_status EXCEPT ![doc_id] = failed]
                 /\ status_log' = [status_log EXCEPT
                                     ![doc_id] = @ \o <<started.status, failed.status>>]
                 /\ SetTask(t, "finished", "exception")
                 /\ UNCHANGED output_dirs
    /\ UNCHANGED <<rag_phase, init_outcome, rag_instance, upload_dirs, next_id,
                   response, lib_calls, deleted>>
    /\ UNCHANGED <<embVars, efVars>>

\* rag_instance.process_document_complete(file_path, output_dir) while the task
\* is suspended in it: the library writes its parse output under the output_dir
\* it was handed, creating the directory when it is missing
TaskIngestWrite(t) ==
    /\ tasks[t].pc = "ingesting"
    /\ output_dirs' = output_dirs \cup {tasks[t].doc_id}
    /\ UNCHANGED <<rag_phase, init_outcome, rag_instance, processing_status,
                   upload_dirs, tasks, next_id, response, lib_calls, deleted,
                   status_log>>
    /\ UNCHANGED <<embVars, efVars>>

\* the await returns normally: lines 311-313
TaskIngestReturn(t) ==
    LET doc_id == tasks[t].doc_id IN
    /\ tasks[t].pc = "ingesting"
    /\ IF doc_id \notin Tracked
       THEN KeyErrorEscapes(t)
       ELSE LET done == MarkCompleted(processing_status[doc_id]) IN
            /\ processing_status' = [processing_status EXCEPT ![doc_id] = done]
            /\ status_log' = [status_log EXCEPT ![doc_id] = Append(@, done.status)]
            /\ SetTask(t, "finished", "returned")
            /\ UNCHANGED output_dirs
    /\ UNCHANGED <<rag_phase, init_outcome, rag_instance, upload_dirs, next_id,
                   response, lib_calls, deleted>>
    /\ UNCHANGED <<embVars, efVars>>

\* the await raises an exception e with str(e) = text: lines 315-318
TaskIngestRaise(t, text) ==
    LET doc_id == tasks[t].doc_id IN
    /\ tasks[t].pc = "ingesting"
    /\ IF doc_id \notin Tracked
       THEN KeyErrorEscapes(t)
       ELSE LET failed == MarkFailed(processing_status[doc_id], text) IN
            /\ processing_status' = [processing_status EXCEPT ![doc_id] = failed]
            /\ status_log' = [status_log EXCEPT ![doc_id] = Append(@, failed.status)]
            /\ SetTask(t, "finished", "exception")
            /\ UNCHANGED output_dirs
    /\ UNCHANGED <<rag_phase, init_outcome, rag_instance, upload_dirs, next_id,
                   response, lib_calls, deleted>>
    /\ UNCHANGED <<embVars, efVars>>

\* ---- the handlers over the status map

\* GET /documents/{doc_id}/status
GetDocumentStatus(doc_id) ==
    /\ rag_phase = "serving"
    /\ response' = IF doc_id \notin Tracked
                   THEN [op |-> "status", code |-> 404, request |-> doc_id]
                   ELSE [op |-> "status", code |-> 200, request |-> doc_id,
                         body |-> processing_status[doc_id]]
    /\ lib_calls' = <<>>
    /\ UNCHANGED <<rag_phase, init_outcome, rag_instance, processing_status,
                   upload_dirs, output_dirs, tasks, next_id, deleted, status_log>>
    /\ UNCHANGED <<embVars, efVars>>

\* GET /documents
ListDocuments ==
    /\ rag_phase = "serving"
    /\ response' = [op |-> "list", code |-> 200, documents |-> processing_status]
    /\ lib_calls' = <<>>
    /\ UNCHANGED <<rag_phase, init_outcome, rag_instance, processing_status,
                   upload_dirs, output_dirs, tasks, next_id, deleted, status_log>>
    /\ UNCHANGED <<embVars, efVars>>

\* DELETE /documents/{doc_id}
DeleteDocument(doc_id) ==
    /\ rag_phase = "serving"
    /\ lib_calls' = <<>>
    /\ IF doc_id \notin Tracked
       THEN /\ response' = [op |-> "delete", code |-> 404, request |-> doc_id]
            /\ UNCHANGED <<processing_status, upload_dirs, output_dirs, deleted,
                           status_log>>
       ELSE /\ upload_dirs' = upload_dirs \ {doc_id}
            /\ output_dirs' = output_dirs \ {doc_id}
            /\ processing_status' = [d \in Tracked \ {doc_id} |-> processing_status[d]]
            /\ status_log' = [d \in Tracked \ {doc_id} |-> status_log[d]]
            /\ deleted' = deleted \cup {doc_id}
            /\ response' = [op |-> "delete", code |-> 200, request |-> doc_id,
                            status |-> "deleted"]
    /\ UNCHANGED <<rag_phase, init_outcome, rag_instance, tasks, next_id>>
    /\ UNCHANGED <<embVars, efVars>>

\* ---- the handlers that delegate to the RAG library

\* what an awaited library call gives back: a str, a dict with or without an
\* "answer" key, or an exception
LibResults ==
    { [kind |-> "str", text |-> "answer text"],
      [kind |-> "dict", answer |-> <<"dict answer">>],
      [kind |-> "dict", answer |-> <<>>],
      [kind |-> "raise", text |-> "lib error"] }

\* result if isinstance(result, str) else result.get("answer", str(result));
\* <<>> when the call raised and there is no result
AnswerOf(result) ==
    CASE result.kind = "str" -> <<result.text>>
      [] result.kind = "dict" /\ result.answer # <<>> -> result.answer
      [] result.kind = "dict" /\ result.answer = <<>> -> <<"str(dict)">>
      [] OTHER -> <<>>

\* detail of the HTTPException(500, str(e)) for a call that raised
ErrorDetail(result) == result.text

\* POST /insert
InsertContent(req, outcome) ==
    /\ rag_phase = "serving"
    /\ IF RagNotInitialized
       THEN /\ response' = Unavailable("insert", req)
            /\ lib_calls' = <<>>
       ELSE /\ lib_calls' = <<[method |-> "ainsert", content |-> req.content,
                               metadata |-> IF req.metadata = <<>> THEN "{}"
                                            ELSE req.metadata[1],
                               doc_id |-> req.doc_id]>>
            /\ response' = IF outcome.kind = "raise"
                           THEN [op |-> "insert", code |-> 500, request |-> req,
                                 detail |-> outcome.text]
                           ELSE [op |-> "insert", code |-> 200, request |-> req,
                                 status |-> "ok", message |-> "Content inserted"]
    /\ UNCHANGED <<rag_phase, init_outcome, rag_instance, processing_status,
                   upload_dirs, output_dirs, tasks, next_id, deleted, status_log>>
    /\ UNCHANGED <<embVars, efVars>>

\* a dispatch that ignores the flag
QueryPathTextOnly(multimodal) == "aquery"

\* the branch on request.multimodal: lines 381-390
QueryPath(multimodal) ==
    IF multimodal THEN "aquery_with_multimodal" ELSE "aquery"

\* the body of query(request) for the endpoint `op`; req is the request as
\* received, multimodal the flag query() reads
QueryBody(op, req, multimodal, result) ==
    IF RagNotInitialized
    THEN /\ response' = Unavailable(op, req)
         /\ lib_calls' = <<>>
    ELSE /\ lib_calls' = <<[method |-> QueryPath(multimodal),
                            query |-> req.query, mode |-> req.mode]>>
         /\ response' = IF AnswerOf(result) = <<>>
                        THEN [op |-> op, code |-> 500, request |-> req,
                              detail |-> ErrorDetail(result)]
                        ELSE [op |-> op, code |-> 200, request |-> req,
                              body |-> [answer |-> AnswerOf(result)[1],
                                        sources |-> <<>>,
                                        mode |-> req.mode,
                                        processing_time |-> "elapsed"]]

\* POST /query
Query(req, result) ==
    /\ rag_phase = "serving"
    /\ QueryBody("query", req, req.multimodal, result)
    /\ UNCHANGED <<rag_phase, init_outcome, rag_instance, processing_status,
                   upload_dirs, output_dirs, tasks, next_id, deleted, status_log>>
    /\ UNCHANGED <<embVars, efVars>>

\* POST /query/multimodal: request.multimodal = True; return await query(request)
QueryMultimodal(req, result) ==
    /\ rag_phase = "serving"
    /\ QueryBody("query_multimodal", req, TRUE, result)
    /\ UNCHANGED <<rag_phase, init_outcome, rag_instance, processing_status,
                   upload_dirs, output_dirs, tasks, next_id, deleted, status_log>>
    /\ UNCHANGED <<embVars, efVars>>

\* product_info.get(key, 'N/A')
GetOr(info, key, default) ==
    IF key \in DOMAIN info THEN info[key] ELSE default

\* the prompt analyze_product builds: the context query, then the six fields
QueryText(req) ==
    <<req.context_query,
      GetOr(req.product_info, "asin", "N/A"),
      GetOr(req.product_info, "title", "N/A"),
      GetOr(req.product_info, "category", "N/A"),
      GetOr(req.product_info, "price_us", "N/A"),
      GetOr(req.product_info, "price_ca", "N/A"),
      GetOr(req.product_info, "bsr", "N/A")>>

\* POST /analyze/product
AnalyzeProduct(req, result) ==
    /\ rag_phase = "serving"
    /\ IF RagNotInitialized
       THEN /\ response' = Unavailable("analyze_product", req)
            /\ lib_calls' = <<>>
       ELSE /\ lib_calls' = <<[method |-> "aquery", query |-> QueryText(req),
                               mode |-> "hybrid"]>>
            /\ response' = IF AnswerOf(result) = <<>>
                           THEN [op |-> "analyze_product", code |-> 500,
                                 request |-> req, detail |-> ErrorDetail(result)]
                           ELSE [op |-> "analyze_product", code |-> 200,
                                 request |-> req,
                                 analysis |-> AnswerOf(result)[1],
                                 product_asin |-> GetOr(req.product_info, "asin", None)]
    /\ UNCHANGED <<rag_phase, init_outcome, rag_instance, processing_status,
                   upload_dirs, output_dirs, tasks, next_id, deleted, status_log>>
    /\ UNCHANGED <<embVars, efVars>>

\* GET /health; the two probes answer 200 or not (an exception counts as not)
RagHealth(localai_ok, qdrant_ok) ==
    /\ rag_phase = "serving"
    /\ response' = [op |-> "health", code |-> 200,
                    status |-> IF rag_instance # None THEN "healthy" ELSE "initializing",
                    localai_connected |-> localai_ok,
                    qdrant_connected |-> qdrant_ok,
                    rag_initialized |-> (rag_instance # None),
                    documents_processed |-> Cardinality(Tracked)]
    /\ lib_calls' = <<>>
    /\ UNCHANGED <<rag_phase, init_outcome, rag_instance, processing_status,
                   upload_dirs, output_dirs, tasks, next_id, deleted, status_log>>
    /\ UNCHANGED <<embVars, efVars>>

\* ---- requests
InsertRequests ==
    [content : {"some text"}, metadata : {<<>>, <<"meta">>}, doc_id : {<<>>}]
\* QueryRequest bodies: both flags, and two texts each with its own mode
QueryRequests ==
    {r \in [query : Queries, mode : Modes, multimodal : BOOLEAN, top_k : {5}] :
        (r.query = <<"q1">>) = (r.mode = "hybrid")}
ProductRequests ==
    [product_info : {<<>>, [asin |-> "B01"]},
     context_query : {"Analyze this product for arbitrage opportunity"}]
InsertOutcomes == {[kind |-> "ok"], [kind |-> "raise", text |-> "lib error"]}
InitOutcomes == {"ok", "import_error", "exception"}

RagStartup == \E outcome \in InitOutcomes : Lifespan(outcome)
RagUpload == \E f \in Filenames, write_ok \in BOOLEAN : Upload(f, write_ok)
RagTaskStart == \E t \in DOMAIN tasks, mkdir_ok \in BOOLEAN : TaskStart(t, mkdir_ok)
RagTaskWrite == \E t \in DOMAIN tasks : TaskIngestWrite(t)
RagTaskReturn == \E t \in DOMAIN tasks : TaskIngestReturn(t)
RagTaskRaise == \E t \in DOMAIN tasks, text \in ExcTexts : TaskIngestRaise(t, text)
RagStatus == \E d \in DocIds : GetDocumentStatus(d)
RagDelete == \E d \in DocIds : DeleteDocument(d)
RagInsert == \E req \in InsertRequests, o \in InsertOutcomes : InsertContent(req, o)
RagQuery == \E req \in QueryRequests, r \in LibResults : Query(req, r)
RagQueryMultimodal == \E req \in QueryRequests, r \in LibResults : QueryMultimodal(req, r)
RagAnalyze == \E req \in ProductRequests, r \in LibResults : AnalyzeProduct(req, r)
RagHealthCheck == \E l \in BOOLEAN, q \in BOOLEAN : RagHealth(l, q)

Next ==
    \/ RagStartup
    \/ RagUpload
    \/ RagTaskStart
    \/ RagTaskWrite
    \/ RagTaskReturn
    \/ RagTaskRaise
    \/ RagStatus
    \/ ListDocuments
    \/ RagDelete
    \/ RagInsert
    \/ RagQuery
    \/ RagQueryMultimodal
    \/ RagAnalyze
    \/ RagHealthCheck

\* ========================================================== embedding service

\* globals after module import: lines 71-74
InitEmbed ==
    /\ emb_phase = "startup"
    /\ load_result = "none"
    /\ model = None
    /\ processor = None
    /\ device = None
    /\ emb_response = NoResponse
    /\ emb_trace = [decoded |-> <<>>, model_inputs |-> <<>>]

\* where load_model stops: at the import, at ColQwen2.from_pretrained, at
\* ColQwen2Processor.from_pretrained, at model.eval(), or nowhere
LoadOutcomes == {"import_error", "model_error", "processor_error", "eval_error", "ok"}

\* the globals load_model leaves behind and the value it returns
LoadModel(outcome, gpu) ==
    [device |-> IF outcome = "import_error" THEN None
                ELSE IF gpu THEN "cuda" ELSE "cpu",
     model |-> IF outcome \in {"import_error", "model_error"} THEN None
               ELSE "ColQwen2",
     processor |-> IF outcome \in {"import_error", "model_error", "processor_error"}
                   THEN None ELSE "ColQwen2Processor",
     success |-> (outcome = "ok")]

\* lifespan: success = load_model(); the app serves either way
EmbLifespan(outcome, gpu) ==
    /\ emb_phase = "startup"
    /\ emb_phase' = "serving"
    /\ load_result' = LoadModel(outcome, gpu).success
    /\ model' = LoadModel(outcome, gpu).model
    /\ processor' = LoadModel(outcome, gpu).processor
    /\ device' = LoadModel(outcome, gpu).device
    /\ UNCHANGED <<emb_response, emb_trace>>
    /\ UNCHANGED <<ragVars, efVars>>

\* request payloads: base64 of image A, base64 of image B, a string that is not
\* base64, base64 of bytes that are no image
Payloads == {"b64:imageA", "b64:imageB", "not-base64", "b64:junk"}

\* base64.b64decode: the bytes, or <<>> when it raises
B64Decode(payload) ==
    CASE payload = "b64:imageA" -> <<"bytesA">>
      [] payload = "b64:imageB" -> <<"bytesB">>
      [] payload = "b64:junk" -> <<"junk">>
      [] OTHER -> <<>>

\* Image.open(...).convert("RGB"): the raster, or <<>> when it raises
OpenImage(bytes) ==
    CASE bytes = "bytesA" -> <<"rgbA">>
      [] bytes = "bytesB" -> <<"rgbB">>
      [] OTHER -> <<>>

\* decode_image: the RGB raster, or <<>> for the ValueError it raises
DecodeImage(payload) ==
    IF B64Decode(payload) = <<>> THEN <<>>
    ELSE OpenImage(B64Decode(payload)[1])

\* model(**inputs): one vector per token of the page
ModelOutput(image) ==
    IF image = "rgbA" THEN << <<2, 4>>, <<4, 6>> >>
    ELSE << <<1, 1>>, <<3, 5>>, <<2, 3>> >>

RECURSIVE SumAt(_, _, _)
SumAt(vectors, k, n) ==
    IF n = 0 THEN 0 ELSE vectors[n][k] + SumAt(vectors, k, n - 1)

\* embeddings.mean(dim=1).squeeze().tolist()
MeanPool(vectors) ==
    [k \in 1..Len(vectors[1]) |-> SumAt(vectors, k, Len(vectors)) \div Len(vectors)]

\* model_loaded of the health check: line 173
HealthModelLoaded == model # None /\ processor # None

\* the guard of embed and embed_batch: `if model is None: raise HTTPException(503)`
ModelMissing == model = None

\* embed_image raises RuntimeError("Model not loaded"): line 140
EmbedImageRefuses == model = None \/ processor = None

EmptyRun == [embeddings |-> <<>>, decoded |-> <<>>, model_inputs |-> <<>>]

\* the for loop of embed_batch from its i-th image on; kind is how it ends
RECURSIVE BatchLoop(_, _, _)
BatchLoop(images, i, acc) ==
    IF i > Len(images)
    THEN [kind |-> "ok", run |-> acc]
    ELSE LET image == DecodeImage(images[i])
             acc1 == [acc EXCEPT !.decoded = Append(@, images[i])]
         IN  IF image = <<>>
             THEN [kind |-> "ValueError", run |-> acc1]
             ELSE IF EmbedImageRefuses
             THEN [kind |-> "RuntimeError", run |-> acc1]
             ELSE BatchLoop(images, i + 1,
                            [acc1 EXCEPT
                               !.embeddings = Append(@, MeanPool(ModelOutput(image[1]))),
                               !.model_inputs = Append(@, image[1])])

\* a loop that drops an invalid image and goes on with the next one
RECURSIVE SkipLoop(_, _, _)
SkipLoop(images, i, acc) ==
    IF i > Len(images)
    THEN [kind |-> "ok", run |-> acc]
    ELSE LET image == DecodeImage(images[i])
             acc1 == [acc EXCEPT !.decoded = Append(@, images[i])]
         IN  IF image = <<>>
             THEN SkipLoop(images, i + 1, acc1)
             ELSE IF EmbedImageRefuses
             THEN [kind |-> "RuntimeError", run |-> acc1]
             ELSE SkipLoop(images, i + 1,
                           [acc1 EXCEPT
                              !.embeddings = Append(@, MeanPool(ModelOutput(image[1]))),
                              !.model_inputs = Append(@, image[1])])

EmbedBatchRunSkipInvalid(images) == SkipLoop(images, 1, EmptyRun)

\* the try block of embed_batch: lines 212-216
EmbedBatchRun(images) == BatchLoop(images, 1, EmptyRun)

EmbUnavailable(op, req) ==
    [op |-> op, code |-> 503, request |-> req, detail |-> "Model not loaded"]

\* the response for a run of the try block of embed (single) or embed_batch
EmbedResponse(op, req, outcome) ==
    CASE outcome.kind = "ValueError" ->
            [op |-> op, code |-> 400, request |-> req, detail |-> "Invalid image data"]
      [] outcome.kind = "RuntimeError" ->
            [op |-> op, code |-> 500, request |-> req, detail |-> "Model not loaded"]
      [] OTHER ->
            IF op = "embed"
            THEN [op |-> op, code |-> 200, request |-> req,
                  embedding |-> outcome.run.embeddings[1],
                  dim |-> Len(outcome.run.embeddings[1])]
            ELSE [op |-> op, code |-> 200, request |-> req,
                  embeddings |-> outcome.run.embeddings,
                  count |-> Len(outcome.run.embeddings),
                  dim |-> IF outcome.run.embeddings # <<>>
                          THEN Len(outcome.run.embeddings[1]) ELSE 0]

\* POST /embed
Embed(payload) ==
    /\ emb_phase = "serving"
    /\ IF ModelMissing
       THEN /\ emb_response' = EmbUnavailable("embed", payload)
            /\ emb_trace' = [decoded |-> <<>>, model_inputs |-> <<>>]
       ELSE LET outcome == BatchLoop(<<payload>>, 1, EmptyRun) IN
            /\ emb_response' = EmbedResponse("embed", payload, outcome)
            /\ emb_trace' = [decoded |-> outcome.run.decoded,
                             model_inputs |-> outcome.run.model_inputs]
    /\ UNCHANGED <<emb_phase, load_result, model, processor, device>>
    /\ UNCHANGED <<ragVars, efVars>>

\* POST /embed_batch
EmbedBatch(images) ==
    /\ emb_phase = "serving"
    /\ IF ModelMissing
       THEN /\ emb_response' = EmbUnavailable("embed_batch", images)
            /\ emb_trace' = [decoded |-> <<>>, model_inputs |-> <<>>]
       ELSE LET outcome == EmbedBatchRun(images) IN
            /\ emb_response' = EmbedResponse("embed_batch", images, outcome)
            /\ emb_trace' = [decoded |-> outcome.run.decoded,
                             model_inputs |-> outcome.run.model_inputs]
    /\ UNCHANGED <<emb_phase, load_result, model, processor, device>>
    /\ UNCHANGED <<ragVars, efVars>>

\* GET /health
EmbHealth(gpu) ==
    /\ emb_phase = "serving"
    /\ emb_response' = [op |-> "health", code |-> 200,
                        status |-> IF HealthModelLoaded THEN "healthy" ELSE "degraded",
                        gpu_available |-> gpu,
                        model_loaded |-> HealthModelLoaded,
                        device |-> IF device # None THEN device ELSE "none"]
    /\ emb_trace' = [decoded |-> <<>>, model_inputs |-> <<>>]
    /\ UNCHANGED <<emb_phase, load_result, model, processor, device>>
    /\ UNCHANGED <<ragVars, efVars>>

RECURSIVE SeqsUpTo(_, _)
SeqsUpTo(S, n) ==
    IF n = 0 THEN {<<>>}
    ELSE SeqsUpTo(S, n - 1) \cup
         {Append(s, x) : s \in {q \in SeqsUpTo(S, n - 1) : Len(q) = n - 1}, x \in S}

BatchRequests == SeqsUpTo(Payloads, MaxBatch)

EmbStartup == \E o \in LoadOutcomes, gpu \in BOOLEAN : EmbLifespan(o, gpu)
EmbEmbed == \E p \in Payloads : Embed(p)
EmbEmbedBatch == \E images \in BatchRequests : EmbedBatch(images)
EmbHealthCheck == \E gpu \in BOOLEAN : EmbHealth(gpu)

NextEmbed ==
    \/ EmbStartup
    \/ EmbEmbed
    \/ EmbEmbedBatch
    \/ EmbHealthCheck

\* ============================================================ embedding_func

InitEmbeddingFunc ==
    /\ ef_pc = "idle"
    /\ ef_texts = <<>>
    /\ ef_i = 0
    /\ ef_embeddings = <<>>
    /\ ef_requests = <<>>
    /\ ef_wellformed = TRUE
    /\ ef_result = [kind |-> "none"]

\* argument lists: n distinct texts, counted up or counted down
TextLists ==
    {[i \in 1..n |-> i] : n \in 0..MaxTexts} \cup
    {[i \in 1..n |-> n + 1 - i] : n \in 0..MaxTexts}

Min(a, b) == IF a <= b THEN a ELSE b

\* a slice that stops one text short of the batch size
BatchSliceShort(texts, i) ==
    SubSeq(texts, i + 1, Min(i + BatchSize - 1, Len(texts)))

\* texts[i:i + batch_size], i counted from 0
BatchSlice(texts, i) ==
    SubSeq(texts, i + 1, Min(i + BatchSize, Len(texts)))

\* the embedding the inference server computes for one text
EmbeddingOfText(text) == <<text, 2 * text>>

\* [e.embedding for e in response.data] of a response that holds one embedding
\* per text of the batch, in order
ResponseData(batch) == [k \in 1..Len(batch) |-> EmbeddingOfText(batch[k])]

\* the same for a response that lacks the embedding of the last text
ResponseDataShort(batch) == SubSeq(ResponseData(batch), 1, Len(batch) - 1)

\* embedding_func(texts) is called: lines 134-141
EfCall(texts) ==
    /\ ef_pc = "idle"
    /\ ef_pc' = "loop"
    /\ ef_texts' = texts
    /\ ef_i' = 0
    /\ ef_embeddings' = <<>>
    /\ ef_requests' = <<>>
    /\ ef_wellformed' = TRUE
    /\ ef_result' = [kind |-> "none"]
    /\ UNCHANGED <<ragVars, embVars>>

\* one turn of the loop, lines 143-149: the request for texts[i:i+batch_size]
\* is sent and answered, by a full response, by one that is short, or by an
\* exception, which the except branch logs and raises again (lines 152-154)
EfBatch(answer) ==
    /\ ef_pc = "loop"
    /\ ef_i < Len(ef_texts)
    /\ LET batch == BatchSlice(ef_texts, ef_i) IN
       /\ ef_requests' = Append(ef_requests, batch)
       /\ IF answer = "raise"
          THEN /\ ef_pc' = "raised"
               /\ ef_result' = [kind |-> "exception", text |-> "embeddings.create failed"]
               /\ UNCHANGED <<ef_i, ef_embeddings, ef_wellformed>>
          ELSE /\ ef_embeddings' = ef_embeddings \o
                     (IF answer = "full" THEN ResponseData(batch)
                      ELSE ResponseDataShort(batch))
               /\ ef_wellformed' = (ef_wellformed /\ answer = "full")
               /\ ef_i' = ef_i + BatchSize
               /\ UNCHANGED <<ef_pc, ef_result>>
    /\ UNCHANGED ef_texts
    /\ UNCHANGED <<ragVars, embVars>>

\* range(0, len(texts), batch_size) is exhausted: return embeddings, line 151
EfReturn ==
    /\ ef_pc = "loop"
    /\ ef_i >= Len(ef_texts)
    /\ ef_pc' = "returned"
    /\ ef_result' = [kind |-> "value", embeddings |-> ef_embeddings]
    /\ UNCHANGED <<ef_texts, ef_i, ef_embeddings, ef_requests, ef_wellformed>>
    /\ UNCHANGED <<ragVars, embVars>>

Answers == {"full", "short", "raise"}

EfStart == \E texts \in TextLists : EfCall(texts)
EfTurn == \E answer \in Answers : EfBatch(answer)

NextEmbeddingFunc ==
    \/ EfStart
    \/ EfTurn
    \/ EfReturn

\* ============================================================= specifications

Init == InitRag /\ InitEmbed /\ InitEmbeddingFunc

\* the RAG service
Spec == Init /\ [][Next]_vars

\* the embedding service
SpecEmbed == Init /\ [][NextEmbed]_vars

\* one call of embedding_func
SpecEmbeddingFunc == Init /\ [][NextEmbeddingFunc]_vars

\* a step of background task t: its start, or the end of its ingestion call
TaskRuns(t) ==
    /\ t \in DOMAIN tasks
    /\ \/ \E mkdir_ok \in BOOLEAN : TaskStart(t, mkdir_ok)
       \/ TaskIngestReturn(t)
       \/ \E text \in ExcTexts : TaskIngestRaise(t, text)

\* the event loop runs every scheduled background task, and the ingestion call
\* a task awaits returns or raises
TaskFairness == \A t \in 1..MaxDocs : WF_vars(TaskRuns(t))

\* the upload, the background task and the handlers over the status map. The
\* handlers left out (health, insert, query, query/multimodal, analyze_product)
\* write response and lib_calls only, which no step of a task reads, so they
\* neither enable nor disable a task step.
NextDocuments ==
    \/ RagStartup
    \/ RagUpload
    \/ RagTaskStart
    \/ RagTaskWrite
    \/ RagTaskReturn
    \/ RagTaskRaise
    \/ RagStatus
    \/ ListDocuments
    \/ RagDelete

\* the document life cycle under that scheduling
SpecLive == Init /\ [][NextDocuments]_vars /\ TaskFairness

\* ===================================================================== claims

TaskOf(d) == {t \in DOMAIN tasks : tasks[t].doc_id = d}

\* C1 as stated: while the background task of an uploaded document has not
\* taken its first step, the document's record is in the status map with
\* status pending and progress 0, and a status query for it answers 200 pending
\* (never 404); a successful upload has registered the record it names.
C1_PendingUntilTaskStarts ==
    /\ \A t \in DOMAIN tasks :
          tasks[t].pc = "scheduled" =>
             /\ tasks[t].doc_id \in Tracked
             /\ processing_status[tasks[t].doc_id].status = "pending"
             /\ processing_status[tasks[t].doc_id].progress = 0
             /\ (response.op = "status" /\ response.request = tasks[t].doc_id) =>
                   (response.code = 200 /\ response.body.status = "pending")
    /\ (response.op = "upload" /\ response.code = 200) =>
          (response.document_id \in Tracked /\ TaskOf(response.document_id) # {})

\* C1, amended: the same, for every document no delete has removed in between.
C1_PendingUntilTaskStartsOrDeleted ==
    /\ \A t \in DOMAIN tasks :
          (tasks[t].pc = "scheduled" /\ tasks[t].doc_id \notin deleted) =>
             /\ tasks[t].doc_id \in Tracked
             /\ processing_status[tasks[t].doc_id].status = "pending"
             /\ processing_status[tasks[t].doc_id].progress = 0
             /\ (response.op = "status" /\ response.request = tasks[t].doc_id) =>
                   (response.code = 200 /\ response.body.status = "pending")
    /\ (response.op = "upload" /\ response.code = 200) =>
          (response.document_id \in Tracked /\ TaskOf(response.document_id) # {})

\* a status query answered between an upload's return and the start of its task
C1_Witness ==
    \E t \in DOMAIN tasks :
        /\ tasks[t].pc = "scheduled"
        /\ response.op = "status"
        /\ response.request = tasks[t].doc_id
        /\ response.code = 200

\* C2 as stated: for a document whose task ran to its end, a normal return of
\* the ingestion call leaves status completed and progress 1.0, and an
\* exception leaves status failed and an error that is present and not empty.
C2_FinishedTaskRecorded ==
    \A t \in DOMAIN tasks :
        (tasks[t].pc = "finished" /\ tasks[t].doc_id \in Tracked) =>
            LET rec == processing_status[tasks[t].doc_id] IN
            /\ tasks[t].result = "returned" =>
                  (rec.status = "completed" /\ rec.progress = 10)
            /\ tasks[t].result = "exception" =>
                  (rec.status = "failed" /\ rec.error # <<>> /\ rec.error[1] # "")

\* C3 as stated: a delete of an untracked id answers 404; a delete of a tracked
\* id, whatever its task is doing, removes the record, the upload directory and
\* the working-directory output, and from then on the id has no record (a status
\* query answers 404) and no artifact on disk.
C3_DeletedStaysGone ==
    /\ \A d \in deleted :
          /\ d \notin Tracked
          /\ d \notin upload_dirs
          /\ d \notin output_dirs
          /\ (response.op = "status" /\ response.request = d) => response.code = 404
    /\ (response.op = "delete" /\ response.code = 404) => response.request \notin Tracked

\* C10 as stated: no exception escapes a background task, also when a delete
\* removed its record while it was pending or suspended in the ingestion call,
\* and the task never puts back a record a delete has removed.
C10_NoExceptionEscapes ==
    /\ \A t \in DOMAIN tasks : tasks[t].pc # "escaped"
    /\ deleted \cap Tracked = {}

\* C4 as stated: once the embedding service serves and its health check reports
\* model_loaded = false, every answer of /embed and /embed_batch is a 503.
C4_DegradedAnswers503 ==
    (emb_phase = "serving" /\ ~HealthModelLoaded
        /\ emb_response.op \in {"embed", "embed_batch"}) =>
       emb_response.code = 503

DependentOps == {"upload", "insert", "query", "query_multimodal", "analyze_product"}

\* C5: when initialize_rag failed the service still serves, with rag_instance
\* None and health reporting rag_initialized = false; upload, insert, query,
\* query/multimodal and analyze_product answer 503 with no call on the library,
\* the status map stays empty, nothing is written to disk and no task is
\* scheduled; status, list and delete never answer 503.
C5_DegradedMode ==
    (rag_phase = "serving" /\ init_outcome # "ok") =>
       /\ rag_instance = None
       /\ response.op = "health" => (~response.rag_initialized /\ response.code = 200)
       /\ response.op \in DependentOps => (response.code = 503 /\ lib_calls = <<>>)
       /\ Tracked = {}
       /\ upload_dirs = {} /\ output_dirs = {}
       /\ tasks = <<>>
       /\ response.op \in {"status", "list", "delete"} => response.code \in {200, 404}

\* an upload refused after initialize_rag raised
C5_Witness ==
    /\ rag_phase = "serving"
    /\ init_outcome = "exception"
    /\ response.op = "upload"
    /\ response.code = 503

\* the embedding one /embed request gives for a payload
EmbeddingOfPayload(payload) ==
    CASE payload = "b64:imageA" -> <<3, 5>>
      [] payload = "b64:imageB" -> <<2, 3>>

ValidPayloads == {"b64:imageA", "b64:imageB"}

\* C6: with the model loaded, embed_batch over N valid images answers 200 with
\* count = N and N vectors, the i-th the embedding of the i-th image; when the
\* image at position k is the first invalid one it answers 400 with no vectors,
\* having decoded the first k images only and handed the first k-1 to the model.
C6_BatchOrderAndFailFast ==
    (emb_response.op = "embed_batch" /\ HealthModelLoaded) =>
       LET images == emb_response.request
           bad == {i \in 1..Len(images) : images[i] \notin ValidPayloads}
       IN  IF bad = {}
           THEN /\ emb_response.code = 200
                /\ emb_response.count = Len(images)
                /\ Len(emb_response.embeddings) = Len(images)
                /\ \A i \in 1..Len(images) :
                      emb_response.embeddings[i] = EmbeddingOfPayload(images[i])
           ELSE LET k == CHOOSE i \in bad : \A j \in bad : i <= j IN
                /\ emb_response.code = 400
                /\ "embeddings" \notin DOMAIN emb_response
                /\ "embedding" \notin DOMAIN emb_response
                /\ emb_trace.decoded = SubSeq(images, 1, k)
                /\ Len(emb_trace.model_inputs) = k - 1

\* a batch whose second image is invalid and whose third is valid
C6_Witness ==
    /\ emb_response.op = "embed_batch"
    /\ HealthModelLoaded
    /\ Len(emb_response.request) = 3
    /\ emb_response.request[1] \in ValidPayloads
    /\ emb_response.request[2] \notin ValidPayloads
    /\ emb_response.request[3] \in ValidPayloads

IsPrefix(s, t) == Len(s) <= Len(t) /\ s = SubSeq(t, 1, Len(s))

Statuses == {"pending", "processing", "completed", "failed"}

C7_StatusOnPath ==
    \A d \in Tracked :
        /\ processing_status[d].status \in Statuses
        /\ status_log[d] # <<>>
        /\ processing_status[d].status = status_log[d][Len(status_log[d])]
        /\ \/ IsPrefix(status_log[d], <<"pending", "processing", "completed">>)
           \/ IsPrefix(status_log[d], <<"pending", "processing", "failed">>)

C7_TerminalFrozen ==
    \A d \in Tracked :
        /\ processing_status[d].status \in {"completed", "failed"} =>
              \/ d \in Tracked' /\ processing_status'[d] = processing_status[d]
              \/ d \notin Tracked' /\ d \in deleted'
        /\ d \in Tracked' =>
              <<processing_status[d].status, processing_status'[d].status>> \in
                 {<<x, x>> : x \in Statuses} \cup
                 {<<"pending", "processing">>, <<"processing", "completed">>,
                  <<"processing", "failed">>, <<"pending", "failed">>}

\* C7: every record's status is one of pending, processing, completed, failed;
\* the values assigned to it follow pending -> processing -> completed or
\* pending -> processing -> failed; a record that is completed or failed keeps
\* its status, progress and error until a delete removes it.
C7_StatusLifecycle == []C7_StatusOnPath /\ [][C7_TerminalFrozen]_vars

\* a status query that read a failed record while another document was
\* uploaded after it
C7_Witness ==
    /\ response.op = "status"
    /\ response.code = 200
    /\ response.body.status = "failed"
    /\ response.request \in Tracked
    /\ \E d \in Tracked : d > response.request

\* C8: with the engine initialized, /query makes exactly one library call,
\* aquery when multimodal is false and aquery_with_multimodal when it is true,
\* with the request's query and mode; /query/multimodal makes exactly one call
\* of aquery_with_multimodal whatever the flag; a 200 answer of either has the
\* fields answer, sources, mode, processing_time, with mode the request's mode
\* and sources empty.
C8_QueryDispatch ==
    (response.op \in {"query", "query_multimodal"} /\ rag_instance # None) =>
       LET req == response.request
           path == IF response.op = "query_multimodal" \/ req.multimodal
                   THEN "aquery_with_multimodal" ELSE "aquery"
       IN  /\ lib_calls = <<[method |-> path, query |-> req.query, mode |-> req.mode]>>
           /\ response.code \in {200, 500}
           /\ response.code = 200 =>
                 /\ DOMAIN response.body = {"answer", "sources", "mode", "processing_time"}
                 /\ response.body.mode = req.mode
                 /\ response.body.sources = <<>>

\* /query answered with the multimodal flag set
C8_Witness ==
    /\ response.op = "query"
    /\ response.request.multimodal
    /\ response.code = 200
    /\ lib_calls # <<>>

C9_OneTaskPerDocument ==
    /\ \A d \in Tracked \cup deleted : Cardinality(TaskOf(d)) = 1
    /\ \A d \in DocIds : Cardinality(TaskOf(d)) <= 1

C9_RecordWrittenByOwnTask ==
    \A d \in Tracked \cap Tracked' :
        processing_status'[d] # processing_status[d] =>
           /\ DOMAIN tasks' = DOMAIN tasks
           /\ \E t \in DOMAIN tasks :
                 /\ tasks[t].doc_id = d
                 /\ tasks'[t] # tasks[t]
                 /\ \A u \in DOMAIN tasks \ {t} : tasks'[u] = tasks[u]

\* C9: every registered document has exactly one background task; a step that
\* changes a field of an existing record is a step of that document's own task
\* (no other task and no request handler changes it).
C9_WriteOwnership == []C9_OneTaskPerDocument /\ [][C9_RecordWrittenByOwnTask]_vars

\* two documents, each processed by its own task
C9_Witness ==
    /\ Cardinality(Tracked) = 2
    /\ \A d \in Tracked : processing_status[d].status \in {"completed", "failed"}

CeilDiv(n, d) == (n + d - 1) \div d

RECURSIVE Concat(_)
Concat(seqs) ==
    IF seqs = <<>> THEN <<>>
    ELSE Concat(SubSeq(seqs, 1, Len(seqs) - 1)) \o seqs[Len(seqs)]

\* C11: embedding_func on n texts sends its requests in order, each a
\* contiguous slice of 1 to 32 texts that continues where the one before
\* ended; a call that returns has sent exactly ceil(n/32) requests (none for
\* n = 0) whose concatenation is the input, and when every response held one
\* embedding per text in order the result has n embeddings, the i-th that of
\* the i-th text; a call in which a request failed raises the exception and
\* returns no result, partial or otherwise.
C11_BatchedEmbedding ==
    LET n == Len(ef_texts) IN
    /\ Len(ef_requests) <= CeilDiv(n, 32)
    /\ \A j \in 1..Len(ef_requests) :
          /\ Len(ef_requests[j]) \in 1..32
          /\ ef_requests[j] =
                SubSeq(ef_texts, 32 * (j - 1) + 1, Min(32 * j, n))
    /\ ef_pc = "returned" =>
          /\ Len(ef_requests) = CeilDiv(n, 32)
          /\ Concat(ef_requests) = ef_texts
          /\ ef_result.kind = "value"
          /\ ef_wellformed =>
                /\ Len(ef_result.embeddings) = n
                /\ \A i \in 1..n :
                      ef_result.embeddings[i] = <<ef_texts[i], 2 * ef_texts[i]>>
    /\ ef_pc = "raised" =>
          /\ ef_result.kind = "exception"
          /\ "embeddings" \notin DOMAIN ef_result
    /\ ef_result.kind = "exception" => ef_pc = "raised"

\* a call on 65 texts that returned after three full responses
C11_Witness ==
    /\ ef_pc = "returned"
    /\ Len(ef_texts) = 65
    /\ ef_wellformed
    /\ Len(ef_requests) = 3

\* C12: when every scheduled task is run and every ingestion call ends, a
\* document that has a record is eventually completed or failed, unless a
\* delete removes its record; no record stays pending or processing for ever.
C12_EventuallyTerminal ==
    \A d \in DocIds :
        (d \in Tracked) ~>
           (\/ d \in deleted
            \/ d \in Tracked /\ processing_status[d].status \in {"completed", "failed"})

\* a document completed by its task while another one is still pending
C12_Witness ==
    \E t \in DOMAIN tasks, u \in DOMAIN tasks :
        /\ tasks[t].pc = "finished"
        /\ tasks[t].result = "returned"
        /\ tasks[t].doc_id \in Tracked
        /\ processing_status[tasks[t].doc_id].status = "completed"
        /\ tasks[u].pc = "scheduled"
        /\ tasks[u].doc_id \in Tracked

====
